---- MODULE Spec2Model ----
(***************************************************************************)
(* A model of Backend.py: the insider-trade scraper (scrape_insider_data), *)
(* the per-symbol price lookup (fetch_single_price), the memoised batch    *)
(* lookup (fetch_stock_prices under lru_cache, run on a ThreadPoolExecutor)*)
(* and the /api/data endpoint (get_data).                                  *)
(*                                                                         *)
(* A text (a Python str) is a sequence of one-character strings.  One      *)
(* extra "character", ZeroRun, stands for 309 consecutive "0" digits, so   *)
(* that numbers beyond the range of a double can be written in a short     *)
(* text: a decimal integer with a non-zero digit in front of a ZeroRun is  *)
(* at least 10^309 > 2^1024.                                               *)
(***************************************************************************)
EXTENDS Integers, Sequences, FiniteSets, TLC

VARIABLES
    cache,        \* lru_cache of fetch_stock_prices: <<[key, val]>>, least recently used first
    useAt,        \* history: key -> number of the call that last used it (inserted or hit)
    ncalls,       \* number of calls / requests made so far
    callKey,      \* the symbol tuple of the last call of fetch_stock_prices
    ret,          \* the mapping the last call returned
    lookups,      \* the symbols handed to fetch_single_price by the last call, in order
    slept,        \* whether the last call ran time.sleep
    wasHit,       \* whether the last call was served by lru_cache
    evicted,      \* the keys the last call removed from the cache
    inFetch,      \* the outcome of requests.get of the request ("none" before any)
    inPage,       \* the page of the request: its table rows, each a sequence of td texts
    resp,         \* the response of get_data
    pc,           \* concurrent requests: where each request thread is
    pkey,         \* concurrent requests: the symbol tuple of each request
    task,         \* concurrent requests: the state of each submitted future
    cidx,         \* concurrent requests: number of futures whose result was collected
    results,      \* concurrent requests: the results dict being built
    pret,         \* concurrent requests: what fetch_stock_prices returned
    beh,          \* fetch_single_price alone: the provider's behaviour
    priceOut,     \* fetch_single_price alone: the price text returned
    sp,           \* avg_price alone: the share_and_price cell text
    val,          \* avg_price alone: the value cell text
    avg           \* avg_price alone: the outcome of the derivation

cacheVars == <<cache, useAt, ncalls, callKey, ret, lookups, slept, wasHit, evicted>>
reqVars   == <<inFetch, inPage, resp>>
poolVars  == <<pc, pkey, task, cidx, results, pret>>
priceVars == <<beh, priceOut>>
avgVars   == <<sp, val, avg>>
vars      == <<cacheVars, reqVars, poolVars, priceVars, avgVars>>

----------------------------------------------------------------------------
(* Texts *)

ZeroRun == "0{309}"
Digits  == {"0", "1", "2", "3", "4", "5", "6", "7", "8", "9"}
NA      == <<"N", "/", "A">>

DigitVal(c) ==
    CASE c = "0" -> 0 [] c = "1" -> 1 [] c = "2" -> 2 [] c = "3" -> 3 [] c = "4" -> 4
      [] c = "5" -> 5 [] c = "6" -> 6 [] c = "7" -> 7 [] c = "8" -> 8 [] c = "9" -> 9

DigitChar(d) ==
    CASE d = 0 -> "0" [] d = 1 -> "1" [] d = 2 -> "2" [] d = 3 -> "3" [] d = 4 -> "4"
      [] d = 5 -> "5" [] d = 6 -> "6" [] d = 7 -> "7" [] d = 8 -> "8" [] d = 9 -> "9"

\* \d of the regular expressions (a ZeroRun is a run of digits)
IsDigit(c) == c \in Digits \cup {ZeroRun}
\* \s of the regular expressions, and what str.strip removes
IsSpace(c) == c = " "

\* All texts over alphabet A of length at most n
TextsUpTo(A, n) == UNION {[1..k -> A] : k \in 0..n}

\* str.strip()
RECURSIVE LStrip(_)
LStrip(s) == IF s # <<>> /\ IsSpace(Head(s)) THEN LStrip(Tail(s)) ELSE s
RECURSIVE RStrip(_)
RStrip(s) ==
    IF s # <<>> /\ IsSpace(s[Len(s)]) THEN RStrip(SubSeq(s, 1, Len(s) - 1)) ELSE s
Strip(s) == RStrip(LStrip(s))

\* str(n) of a natural number
RECURSIVE NatText(_)
NatText(n) == IF n < 10 THEN <<DigitChar(n)>> ELSE NatText(n \div 10) \o <<DigitChar(n % 10)>>

\* the last k digits of n, zero padded
RECURSIVE PadText(_, _)
PadText(n, k) == IF k = 0 THEN <<>> ELSE PadText(n \div 10, k - 1) \o <<DigitChar(n % 10)>>

\* round-half-even of a / b for naturals a, b > 0 (the rounding of the 'f' format)
RoundDiv(a, b) ==
    LET q == a \div b
        r == a % b
    IN  IF 2 * r > b \/ (2 * r = b /\ q % 2 = 1) THEN q + 1 ELSE q

RECURSIVE Pow10(_)
Pow10(k) == IF k = 0 THEN 1 ELSE 10 * Pow10(k - 1)

----------------------------------------------------------------------------
(* Numbers.  An int is [huge, n]: huge means at least 10^309 (n is then    *)
(* unused).  A float is [kind, num, den]: "fin" is num/den, "inf" is the   *)
(* double infinity, "nan" a NaN.                                           *)

\* int(text): ValueError unless the text is a non-empty run of digits (leading zeros allowed)
RECURSIVE IntAcc(_, _)
IntAcc(s, acc) ==
    IF s = <<>> THEN acc
    ELSE IF Head(s) = ZeroRun
         THEN IntAcc(Tail(s), IF acc.huge \/ acc.n > 0 THEN [huge |-> TRUE, n |-> 0] ELSE acc)
         ELSE IntAcc(Tail(s), IF acc.huge THEN acc
                              ELSE [huge |-> FALSE, n |-> acc.n * 10 + DigitVal(Head(s))])

PyInt(s) ==
    IF s = <<>> \/ \E i \in 1..Len(s) : ~IsDigit(s[i])
    THEN [exc |-> "ValueError"]
    ELSE [exc |-> "none", v |-> IntAcc(s, [huge |-> FALSE, n |-> 0])]

\* float(text) for a text of digits and points: one point at most and a digit at least;
\* a value of 10^309 or more is inf; fraction digits behind a ZeroRun are below 1e-309
\* and do not show in any result.
PyFloat(s) ==
    LET dots  == {i \in 1..Len(s) : s[i] = "."}
        ndig  == Cardinality({i \in 1..Len(s) : IsDigit(s[i])})
    IN  IF Cardinality(dots) > 1 \/ ndig = 0 \/ \E i \in 1..Len(s) : ~(IsDigit(s[i]) \/ s[i] = ".")
        THEN [exc |-> "ValueError"]
        ELSE LET d     == IF dots = {} THEN Len(s) + 1 ELSE CHOOSE i \in dots : TRUE
                 ip    == IntAcc(SubSeq(s, 1, d - 1), [huge |-> FALSE, n |-> 0])
                 fr0   == SubSeq(s, d + 1, Len(s))
                 zr    == {i \in 1..Len(fr0) : fr0[i] = ZeroRun}
                 cut   == IF zr = {} THEN Len(fr0)
                          ELSE (CHOOSE i \in zr : \A j \in zr : i <= j) - 1
                 fr    == SubSeq(fr0, 1, cut)
                 fv    == IntAcc(fr, [huge |-> FALSE, n |-> 0]).n
             IN  IF ip.huge THEN [exc |-> "none", v |-> [kind |-> "inf", num |-> 0, den |-> 1]]
                 ELSE [exc |-> "none",
                       v |-> [kind |-> "fin", num |-> ip.n * Pow10(Len(fr)) + fv,
                              den |-> Pow10(Len(fr))]]

\* format(x, ".kf") of a non-negative float
FormatF(x, k) ==
    IF x.kind = "inf" THEN <<"i", "n", "f">>
    ELSE IF x.kind = "nan" THEN <<"n", "a", "n">>
    ELSE LET u == IF x.den % Pow10(k) = 0 THEN RoundDiv(x.num, x.den \div Pow10(k))
                   ELSE RoundDiv(x.num * Pow10(k), x.den)
         IN  NatText(u \div Pow10(k)) \o <<".">> \o PadText(u % Pow10(k), k)

\* a text that reads as a non-negative number with exactly k decimals
IsDecimal(t, k) ==
    /\ Len(t) >= k + 2
    /\ t[Len(t) - k] = "."
    /\ \A i \in 1..Len(t) : i # Len(t) - k => t[i] \in Digits

----------------------------------------------------------------------------
(* scrape_insider_data: the avg_price derivation of one row *)

\* [\d,] of the share-count pattern
IsRunChar(c) == IsDigit(c) \/ c = ","

\* the length of the longest prefix of s made of digits and commas
RECURSIVE RunLen(_)
RunLen(s) == IF s # <<>> /\ IsRunChar(Head(s)) THEN 1 + RunLen(Tail(s)) ELSE 0

\* re.match(r'([\d,]+)\s*\$|([\d,]+)', s): the first alternative takes a prefix of k run
\* characters (the longest k that lets the rest match), any number j of spaces, and a
\* dollar sign; the second the longest run.  g1 and g2 are the groups (<<>> is None).
ShareCountMatch(s) ==
    LET run  == RunLen(s)
        alt1 == {k \in 1..run : \E j \in 0..(Len(s) - k - 1) :
                     /\ \A i \in (k + 1)..(k + j) : IsSpace(s[i])
                     /\ s[k + j + 1] = "$"}
    IN  IF alt1 # {}
        THEN [matched |-> TRUE,
              g1 |-> SubSeq(s, 1, CHOOSE k \in alt1 : \A m \in alt1 : m <= k), g2 |-> <<>>]
        ELSE IF run > 0 THEN [matched |-> TRUE, g1 |-> <<>>, g2 |-> SubSeq(s, 1, run)]
        ELSE [matched |-> FALSE, g1 |-> <<>>, g2 |-> <<>>]

NotComma(c) == c # ","
NumericChar(c) == IsDigit(c) \/ c = "."

\* int((m.group(1) or m.group(2)).replace(",", "")) if m else 0
ShareCountOf(m) ==
    IF m.matched
    THEN PyInt(SelectSeq(IF m.g1 # <<>> THEN m.g1 ELSE m.g2, NotComma))
    ELSE [exc |-> "none", v |-> [huge |-> FALSE, n |-> 0]]

ShareCount(s) == ShareCountOf(ShareCountMatch(s))

\* float(re.sub(r'[^\d.]', '', value)) if value else 0.0
TotalValue(value) ==
    IF value # <<>> THEN PyFloat(SelectSeq(value, NumericChar))
    ELSE [exc |-> "none", v |-> [kind |-> "fin", num |-> 0, den |-> 1]]

\* float / int: the int is converted to a double first, which overflows from 2^1024 on
FloatDivInt(x, n) ==
    IF n.huge THEN [exc |-> "OverflowError"]
    ELSE IF n.n = 0 THEN [exc |-> "ZeroDivisionError"]
    ELSE IF x.kind = "fin"
         THEN [exc |-> "none", v |-> [kind |-> "fin", num |-> x.num, den |-> x.den * n.n]]
         ELSE [exc |-> "none", v |-> x]

\* the exceptions the derivation's except clause names
AvgCaught == {"ValueError", "AttributeError", "TypeError", "ZeroDivisionError"}

\* f"{total_value / share_count:.2f}" on the outcome q of the division
AvgFormat(q) ==
    IF q.exc # "none" THEN [exc |-> q.exc] ELSE [exc |-> "none", text |-> FormatF(q.v, 2)]

\* the third statement of the try block
AvgThird(share_count, total_value) ==
    IF total_value.exc # "none" THEN [exc |-> total_value.exc]
    ELSE IF share_count.v.huge \/ share_count.v.n > 0
         THEN AvgFormat(FloatDivInt(total_value.v, share_count.v))
    ELSE [exc |-> "none", text |-> NA]

\* the second statement of the try block, reached when the first raised nothing
AvgSecond(share_count, value) ==
    IF share_count.exc # "none" THEN [exc |-> share_count.exc]
    ELSE AvgThird(share_count, TotalValue(value))

\* the try block: the first exception raised ends it
AvgTry(share_and_price, value) == AvgSecond(ShareCount(share_and_price), value)

\* the except clause: the exceptions it names give "N/A", any other leaves the function
AvgExcept(r) == IF r.exc \in AvgCaught THEN [exc |-> "none", text |-> NA] ELSE r

\* avg_price of a row: [exc |-> "none", text] or the exception that leaves the function
avg_price(share_and_price, value) == AvgExcept(AvgTry(share_and_price, value))

----------------------------------------------------------------------------
(* fetch_single_price.  The market-data provider is outside the program: a *)
(* lookup's behaviour b says what each of its calls does.                  *)
(*   b.ticker  "ok", or "Exception": yf.Ticker(symbol) raises              *)
(*   b.fast    what stock.fast_info.get("last_price", "N/A") does:         *)
(*             "missing" (the default "N/A" comes back), "None", "num" (the *)
(*             float b.price / 10^6), "nan", "text" (a str other than       *)
(*             "N/A"), "KeyError" (raises KeyError, TypeError or            *)
(*             AttributeError), "Exception" (raises anything else)          *)
(*   b.hist    what stock.history(period="1d") gives: "empty", "rows" (the  *)
(*             last Close is b.close / 10^6), "KeyError", "Exception"       *)

FastKinds == {"missing", "None", "num", "nan", "text", "KeyError", "Exception"}
HistKinds == {"empty", "rows", "KeyError", "Exception"}

Micro(n) == [kind |-> "fin", num |-> n, den |-> 1000000]

\* f"${price:.5f}": TypeError for None, ValueError for a str
DollarFormat(price) ==
    IF price.kind = "None" THEN [exc |-> "TypeError"]
    ELSE IF price.kind = "text" THEN [exc |-> "ValueError"]
    ELSE [exc |-> "none", text |-> <<"$">> \o FormatF(price, 5)]

\* the inner try block: price, or the exception that ends the block
InnerTry(b) ==
    CASE b.fast \in {"KeyError", "Exception"} -> [exc |-> b.fast]
      [] b.fast = "num"  -> [exc |-> "none", price |-> Micro(b.price)]
      [] b.fast = "nan"  -> [exc |-> "none", price |-> [kind |-> "nan"]]
      [] b.fast = "None" -> [exc |-> "none", price |-> [kind |-> "None"]]
      [] b.fast = "text" -> [exc |-> "none", price |-> [kind |-> "text"]]
      [] b.fast = "missing" ->
            CASE b.hist \in {"KeyError", "Exception"} -> [exc |-> b.hist]
              [] b.hist = "rows"  -> [exc |-> "none", price |-> Micro(b.close)]
              [] b.hist = "empty" -> [exc |-> "none", price |-> [kind |-> "N/A"]]

\* the return statement, on the price the inner try block left
ReturnPrice(price) ==
    IF price.kind = "N/A" THEN [exc |-> "none", text |-> NA] ELSE DollarFormat(price)

\* the inner except clause and the return statement, on the outcome t of the inner block
InnerExcept(t) ==
    IF t.exc = "KeyError" THEN ReturnPrice([kind |-> "N/A"])
    ELSE IF t.exc = "none" THEN ReturnPrice(t.price)
    ELSE [exc |-> t.exc]

\* the outer except clause: any exception gives "N/A"
OuterExcept(r) == IF r.exc # "none" THEN NA ELSE r.text

\* the price text fetch_single_price returns for a symbol (its first component is the symbol)
fetch_single_price(b) ==
    IF b.ticker # "ok" THEN NA ELSE OuterExcept(InnerExcept(InnerTry(b)))

----------------------------------------------------------------------------
(* is_valid_symbol, fetch_stock_prices and its lru_cache *)

is_valid_symbol(symbol) ==
    /\ symbol # <<>>
    /\ symbol # NA
    /\ ~ \E i \in 1..Len(symbol) : symbol[i] \in {"#", "@", "/"}

valid_symbols(symbols) == SelectSeq(symbols, is_valid_symbol)

EmptyMap == [s \in {} |-> NA]
DictSet(d, k, x) == [j \in DOMAIN d \cup {k} |-> IF j = k THEN x ELSE d[j]]

\* the loop over the futures, in submission order: results[symbol] = price
RECURSIVE CollectResults(_, _, _)
CollectResults(valid, outs, n) ==
    IF n = 0 THEN EmptyMap
    ELSE DictSet(CollectResults(valid, outs, n - 1), valid[n], fetch_single_price(outs[n]))

\* (variant of max_workers: one worker more)
max_workers_eleven == 10 + 1

max_workers == 10
maxsize == 100

\* the body of fetch_stock_prices; outs[i] is the provider's behaviour for the i-th
\* valid symbol
PricesOfValid(valid, outs) ==
    IF valid = <<>>
    THEN [ret |-> EmptyMap, lookups |-> <<>>, slept |-> FALSE]
    ELSE [ret |-> CollectResults(valid, outs, Len(valid)), lookups |-> valid,
          slept |-> TRUE]

PricesBody(symbols, outs) == PricesOfValid(valid_symbols(symbols), outs)

CacheKeys(c) == {c[i].key : i \in DOMAIN c}
CacheGet(c, k) == c[CHOOSE i \in DOMAIN c : c[i].key = k].val

\* a hit makes the entry the most recently used one
CacheTouch(c, k) ==
    LET i == CHOOSE j \in DOMAIN c : c[j].key = k
    IN  SubSeq(c, 1, i - 1) \o SubSeq(c, i + 1, Len(c)) \o <<c[i]>>

\* (variant of CacheEvict: drops the most recently used entry)
CacheEvictNewest(c) == SubSeq(c, 1, Len(c) - 1)

\* the entry the wrapper drops when it stores into a full cache
CacheEvict(c) == Tail(c)

\* the wrapper stores the result of a miss, unless the key got in meanwhile
CacheInsert(c, k, v) ==
    IF k \in CacheKeys(c) THEN c
    ELSE IF Len(c) >= maxsize THEN Append(CacheEvict(c), [key |-> k, val |-> v])
    ELSE Append(c, [key |-> k, val |-> v])

\* (variant of CacheHit: nothing is ever found, as without the decorator)
CacheHitNever(c, k) == FALSE

CacheHit(c, k) == k \in CacheKeys(c)

\* a miss: the body has run and given r, which the wrapper stores
CacheMiss(c, symbols, r) ==
    [ret |-> r.ret, cache |-> CacheInsert(c, symbols, r.ret),
     lookups |-> r.lookups, slept |-> r.slept, hit |-> FALSE]

\* one sequential call of the wrapped fetch_stock_prices
fetch_stock_prices(c, symbols, outs) ==
    IF CacheHit(c, symbols)
    THEN [ret |-> CacheGet(c, symbols), cache |-> CacheTouch(c, symbols),
          lookups |-> <<>>, slept |-> FALSE, hit |-> TRUE]
    ELSE CacheMiss(c, symbols, PricesBody(symbols, outs))


----------------------------------------------------------------------------
(* scrape_insider_data and get_data.  A page is the sequence of the <tr>    *)
(* elements soup.select("table tr") yields; a row is the sequence of the    *)
(* texts of its <td> cells.                                                 *)

\* (variant of MinColumns: a row needs eight cells)
MinColumnsEight == 7 + 1

MinColumns == 7

\* the requests exceptions the try block around requests.get catches
RequestExceptions == {"HTTPError", "ConnectionError", "Timeout"}

\* data.append({...}) of a row, on the outcome a of its avg_price derivation
RowEntry(columns, a) ==
    IF a.exc # "none" THEN [exc |-> a.exc]
    ELSE [exc |-> "none",
          entry |-> [symbol |-> IF Strip(columns[1]) # <<>> THEN Strip(columns[1]) ELSE NA,
                     company |-> Strip(columns[2]),
                     insider_name |-> Strip(columns[3]),
                     trade_type |-> Strip(columns[4]),
                     share_and_price |-> Strip(columns[5]), value |-> Strip(columns[6]),
                     date_and_time |-> Strip(columns[7]),
                     avg_price |-> a.text]]

\* one data row with enough cells: its record, or the exception of its avg_price
ParseRow(columns) == RowEntry(columns, avg_price(Strip(columns[5]), Strip(columns[6])))

\* the loop over table_rows[1:], from row i on, with what was gathered so far; r is the
\* outcome of row i when it has enough cells
RECURSIVE RowLoop(_, _, _, _)
RowStep(table_rows, i, data, symbols_list, r) ==
    IF r.exc # "none" THEN [exc |-> r.exc]
    ELSE RowLoop(table_rows, i + 1, Append(data, r.entry), Append(symbols_list, r.entry.symbol))

RowLoop(table_rows, i, data, symbols_list) ==
    IF i > Len(table_rows)
    THEN [exc |-> "none", data |-> data, symbols_list |-> symbols_list]
    ELSE IF Len(table_rows[i]) < MinColumns
         THEN RowLoop(table_rows, i + 1, data, symbols_list)
    ELSE RowStep(table_rows, i, data, symbols_list, ParseRow(table_rows[i]))

\* (variant of PriceOf: a symbol the mapping lacks gets an empty text)
PriceOfNoDefault(stock_prices, symbol) ==
    IF symbol \in DOMAIN stock_prices THEN stock_prices[symbol] ELSE <<>>

\* stock_prices.get(symbol, "N/A")
PriceOf(stock_prices, symbol) ==
    IF symbol \in DOMAIN stock_prices THEN stock_prices[symbol] ELSE NA

\* entry["real_time_price"] = ... for every entry
AttachPrices(data, stock_prices) ==
    [i \in 1..Len(data) |->
        [symbol |-> data[i].symbol, company |-> data[i].company,
         insider_name |-> data[i].insider_name, trade_type |-> data[i].trade_type,
         share_and_price |-> data[i].share_and_price, value |-> data[i].value,
         date_and_time |-> data[i].date_and_time, avg_price |-> data[i].avg_price,
         real_time_price |-> PriceOf(stock_prices, data[i].symbol)]]

\* the end of scrape_insider_data, on the outcome of its call of fetch_stock_prices
Priced(parsed, call) ==
    [kind |-> "data", called |-> TRUE, key |-> parsed.symbols_list, call |-> call,
     data |-> AttachPrices(parsed.data, call.ret)]

\* scrape_insider_data after the row loop
Scraped(c, parsed, outs) ==
    IF parsed.exc # "none"
    THEN [kind |-> "raise", called |-> FALSE, data |-> <<>>]
    ELSE Priced(parsed, fetch_stock_prices(c, parsed.symbols_list, outs))

\* scrape_insider_data on the outcome of requests.get (fetched: "ok" or the exception)
\* and the page: kind "error" is the returned error dict, "raise" an exception leaving
\* the function, "data" the list of entries; call is the outcome of its call of
\* fetch_stock_prices, when it made one (called).
scrape_insider_data(c, fetched, page, outs) ==
    IF fetched \in RequestExceptions
    THEN [kind |-> "error", called |-> FALSE, data |-> <<>>]
    ELSE Scraped(c, RowLoop(page, 2, <<>>, <<>>), outs)

\* get_data: the status and the JSON body (an array of records, or an object with the
\* key "error")
get_data(scraped) ==
    CASE scraped.kind = "data"  -> [status |-> 200, body |-> "array", records |-> scraped.data]
      [] scraped.kind = "error" -> [status |-> 200, body |-> "error", records |-> <<>>]
      [] scraped.kind = "raise" -> [status |-> 500, body |-> "error", records |-> <<>>]

----------------------------------------------------------------------------
(* Initial values of the variables a specification does not use *)

CacheIdle ==
    /\ cache = <<>> /\ useAt = EmptyMap /\ ncalls = 0 /\ callKey = <<>>
    /\ ret = EmptyMap /\ lookups = <<>> /\ slept = FALSE /\ wasHit = FALSE
    /\ evicted = {}
ReqIdle   ==
    inFetch = "none" /\ inPage = <<>> /\ resp = [status |-> 0, body |-> "none", records |-> <<>>]
PoolIdle  ==
    /\ pc = <<>> /\ pkey = <<>> /\ task = <<>> /\ cidx = <<>> /\ results = <<>>
    /\ pret = <<>>
PriceIdle == beh = [ticker |-> "none"] /\ priceOut = <<>>
AvgIdle   == sp = <<>> /\ val = <<>> /\ avg = [exc |-> "unset"]

----------------------------------------------------------------------------
(* SpecAvg: the avg_price derivation on its own, over the cell texts *)

MaxShareLen == 3
MaxValueLen == 2
ShareAlphabet == {"1", "0", ",", "$", " ", "x", ZeroRun}
ValueAlphabet == {"3", ".", "$", ZeroRun}
ExampleShare  == <<"1", "0", "0", " ", "$", "1", "5", "0", "0">>
ExampleValue  == <<"$", "1", ",", "5", "0", "0", ".", "0", "0">>
ShareTexts == TextsUpTo(ShareAlphabet, MaxShareLen) \cup {ExampleShare}
ValueTexts == TextsUpTo(ValueAlphabet, MaxValueLen) \cup {ExampleValue}

InitAvg ==
    /\ sp \in ShareTexts /\ val \in ValueTexts /\ avg = [exc |-> "unset"]
    /\ CacheIdle /\ ReqIdle /\ PoolIdle /\ PriceIdle

DeriveAvg ==
    /\ avg.exc = "unset"
    /\ avg' = avg_price(sp, val)
    /\ UNCHANGED <<sp, val, cacheVars, reqVars, poolVars, priceVars>>

NextAvg == DeriveAvg
SpecAvg == InitAvg /\ [][NextAvg]_vars

----------------------------------------------------------------------------
(* SpecPrice: fetch_single_price on its own, over the provider's behaviours *)

PriceSamples == {1234565, 123450000}
CloseSamples == {999999, 7000000}
Behaviours ==
    [ticker : {"ok", "Exception"}, fast : FastKinds, price : PriceSamples,
     hist : HistKinds, close : CloseSamples]

InitPrice ==
    /\ beh \in Behaviours /\ priceOut = <<>>
    /\ CacheIdle /\ ReqIdle /\ PoolIdle /\ AvgIdle

LookupPrice ==
    /\ priceOut = <<>>
    /\ priceOut' = fetch_single_price(beh)
    /\ UNCHANGED <<beh, cacheVars, reqVars, poolVars, avgVars>>

NextPrice == LookupPrice
SpecPrice == InitPrice /\ [][NextPrice]_vars


----------------------------------------------------------------------------
(* Symbols and provider behaviours the multi-call specifications draw from *)

AAPL == <<"A", "A", "P", "L">>
MSFT == <<"M", "S", "F", "T">>
BRKB == <<"B", "R", "K", "/", "B">>
HASH == <<"A", "#">>
ATX  == <<"@", "X">>

Good    == [ticker |-> "ok", fast |-> "num", price |-> 123450000, hist |-> "empty", close |-> 0]
Closed  == [ticker |-> "ok", fast |-> "missing", price |-> 0, hist |-> "rows", close |-> 7000000]
Failing == [ticker |-> "ok", fast |-> "KeyError", price |-> 0, hist |-> "rows", close |-> 7000000]
NanLive == [ticker |-> "ok", fast |-> "nan", price |-> 0, hist |-> "empty", close |-> 0]
LookupSamples == {Good, Failing, NanLive}

\* the behaviours of the lookups of one call on a symbol tuple
OutsFor(symbols, samples) == [1..Len(valid_symbols(symbols)) -> samples]

----------------------------------------------------------------------------
(* SpecCache: sequential calls of fetch_stock_prices.  The cache starts    *)
(* empty, or as Prefill earlier calls on distinct keys have left it.       *)

MaxCalls == 3
Prefill  == 99

\* the i-th of the keys of the earlier calls: five symbols that are one invalid
\* character each (i in base 3), then AAPL
FillerKey(i) ==
    [j \in 1..5 |->
        LET d == (i \div (IF j = 1 THEN 1 ELSE IF j = 2 THEN 3 ELSE IF j = 3 THEN 9
                          ELSE IF j = 4 THEN 27 ELSE 81)) % 3
        IN  IF d = 0 THEN <<"/">> ELSE IF d = 1 THEN <<"#">> ELSE <<"@">>] \o <<AAPL>>

\* the cache after n calls, on FillerKey(1), ..., FillerKey(n) in this order, from an
\* empty cache: all are misses, so the last maxsize of them are left, oldest first
CacheAfter(n) ==
    LET kept == IF n > maxsize THEN maxsize ELSE n
    IN  [i \in 1..kept |->
            LET key == FillerKey(n - kept + i)
            IN  [key |-> key, val |-> PricesBody(key, <<Closed>>).ret]]

PrefilledCache == CacheAfter(Prefill)

CacheCallKeys ==
    {<<>>, <<AAPL, MSFT>>, <<MSFT, AAPL>>, <<AAPL, NA, AAPL>>, <<BRKB, NA>>,
     FillerKey(1), FillerKey(2)}

InitCache ==
    /\ cache \in {<<>>, PrefilledCache}
    /\ useAt = [k \in CacheKeys(cache) |->
                  (CHOOSE i \in DOMAIN cache : cache[i].key = k) - Len(cache)]
    /\ ncalls = 0 /\ callKey = <<>> /\ ret = EmptyMap /\ lookups = <<>>
    /\ slept = FALSE /\ wasHit = FALSE /\ evicted = {}
    /\ ReqIdle /\ PoolIdle /\ PriceIdle /\ AvgIdle

\* the bookkeeping of one call's outcome r on the symbol tuple key
Record(key, r) ==
    /\ cache' = r.cache
    /\ ret' = r.ret
    /\ lookups' = r.lookups
    /\ slept' = r.slept
    /\ wasHit' = r.hit
    /\ callKey' = key
    /\ ncalls' = ncalls + 1
    /\ evicted' = CacheKeys(cache) \ CacheKeys(r.cache)
    /\ useAt' = [k \in CacheKeys(r.cache) |-> IF k = key THEN ncalls + 1 ELSE useAt[k]]

Call(key, outs) ==
    /\ ncalls < MaxCalls
    /\ Record(key, fetch_stock_prices(cache, key, outs))
    /\ UNCHANGED <<reqVars, poolVars, priceVars, avgVars>>

NextCache == \E key \in CacheCallKeys : \E outs \in OutsFor(key, {Good, Failing}) : Call(key, outs)
SpecCache == InitCache /\ [][NextCache]_vars


----------------------------------------------------------------------------
(* Claims on the cache, under SpecCache *)

\* a symbol the specification calls invalid: empty, "N/A", or holding '#', '@' or '/'
SaidInvalid(symbol) ==
    \/ symbol = <<>>
    \/ symbol = NA
    \/ \E i \in 1..Len(symbol) : symbol[i] = "#" \/ symbol[i] = "@" \/ symbol[i] = "/"

\* the valid symbols of a tuple, in order, duplicates kept
SaidValid(symbols) ==
    LET keep == {i \in 1..Len(symbols) : ~SaidInvalid(symbols[i])}
        RECURSIVE Pick(_)
        Pick(i) == IF i > Len(symbols) THEN <<>>
                   ELSE IF i \in keep THEN <<symbols[i]>> \o Pick(i + 1) ELSE Pick(i + 1)
    IN  Pick(1)

IsPermutation(a, b) ==
    /\ Len(a) = Len(b)
    /\ \E f \in [1..Len(a) -> 1..Len(a)] :
          /\ \A i, j \in 1..Len(a) : i # j => f[i] # f[j]
          /\ \A i \in 1..Len(a) : a[i] = b[f[i]]

\* C2: a call whose symbol tuple is the key of an entry still in the cache returns that
\* entry's mapping, issues no lookup and does not sleep, and leaves the entry as it was
\* (every entry that stays in the cache keeps its mapping); a call whose tuple is not a
\* key of the cache, be it a reordering of one, is computed fresh: it looks up every
\* valid symbol of the tuple, in order.
C2_CachedCallReturnsStoredMapping ==
    [][ncalls' = ncalls + 1 =>
          /\ \A k \in CacheKeys(cache) \cap CacheKeys(cache') :
                CacheGet(cache', k) = CacheGet(cache, k)
          /\ IF \E i \in DOMAIN cache : cache[i].key = callKey'
             THEN /\ \A i \in DOMAIN cache : cache[i].key = callKey' => ret' = cache[i].val
                  /\ lookups' = <<>>
                  /\ ~slept'
                  /\ wasHit'
             ELSE /\ lookups' = SaidValid(callKey')
                  /\ ~wasHit'
                  /\ slept' = (lookups' # <<>>)]_vars

\* a hit on a key while a reordering of it is cached too, with another mapping
C2_Witness ==
    /\ wasHit /\ lookups = <<>> /\ ~slept /\ DOMAIN ret # {}
    /\ \E i \in DOMAIN cache :
          /\ cache[i].key # callKey
          /\ IsPermutation(cache[i].key, callKey)
          /\ cache[i].val # ret

\* C3: the cache never holds more than 100 keys, nor a key twice; a call removes a key
\* only when it stores a new key while 100 are held, it then removes exactly one, and
\* that one is the key whose last use (its insertion or its latest hit) is the oldest.
C3_BoundedLruEviction ==
    /\ [](/\ Len(cache) <= 100
          /\ \A i, j \in DOMAIN cache : cache[i].key = cache[j].key => i = j)
    /\ [][LET before == CacheKeys(cache)
              gone   == before \ CacheKeys(cache')
          IN  /\ Cardinality(gone) <= 1
              /\ gone # {} =>
                    /\ Cardinality(before) = 100
                    /\ callKey' \notin before
                    /\ callKey' \in CacheKeys(cache')
                    /\ \A k \in gone : \A j \in before : useAt[k] <= useAt[j]
              /\ (Cardinality(before) = 100 /\ ncalls' = ncalls + 1 /\ callKey' \notin before)
                    => Cardinality(gone) = 1]_vars

\* a hit on the oldest key made the second oldest the one evicted by a later insertion
C3_Witness ==
    /\ evicted = {FillerKey(2)}
    /\ FillerKey(1) \in CacheKeys(cache)
    /\ Len(cache) = 100


----------------------------------------------------------------------------
(* Rows and pages *)

Cell(t) == <<" ">> \o t \o <<" ">>
Row(symbol, share_and_price, value) ==
    <<symbol, Cell(<<"C", "o">>), <<"n">>, <<"B">>, share_and_price, value, <<"d">>>>

HeaderRow == <<>>
RowAAPL   == Row(Cell(AAPL), <<"1", "0", " ", "$", "5">>, <<"$", "3", "0">>)
RowMSFT   == Row(MSFT, <<>>, <<"x">>)
RowNoSym  == Row(<<" ">>, <<"2">>, <<"1">>) \o <<<<"e">>>>
RowBRKB   == Row(BRKB, <<",">>, <<"1", ".", "2", ".", "3">>)
RowHash   == Row(HASH, <<"0", "5">>, <<"$", "3">>)
RowAt     == Row(ATX, <<"x", "1">>, <<>>)
RowNA     == Row(NA, <<"2", ",", "0">>, <<"3", ".", "1">>)
RowShort  == <<AAPL, <<"x">>, <<"y">>>>
RowSix    == <<MSFT, <<"a">>, <<"b">>, <<"c">>, <<"1">>, <<"1">>>>
RowHuge   == Row(MSFT, <<"1", ZeroRun>>, <<"$", "3">>)

\* get_data on the outcome of scrape_insider_data: the response, and the bookkeeping
Serve(scraped) ==
    /\ resp' = get_data(scraped)
    /\ IF scraped.called
       THEN Record(scraped.key, scraped.call)
       ELSE /\ UNCHANGED <<cache, useAt>>
            /\ ncalls' = ncalls + 1
            /\ callKey' = <<>> /\ ret' = EmptyMap /\ lookups' = <<>>
            /\ slept' = FALSE /\ wasHit' = FALSE /\ evicted' = {}

----------------------------------------------------------------------------
(* Spec: GET /api/data requests, one after the other *)

MaxRequests == 2

SamplePages ==
    {<<>>,
     <<HeaderRow>>,
     <<HeaderRow, RowAAPL, RowShort, RowMSFT>>,
     <<HeaderRow, RowMSFT, RowSix, RowAAPL>>,
     <<HeaderRow, RowNoSym, RowBRKB, RowHash, RowAt, RowNA>>,
     <<RowMSFT, RowAAPL, RowNoSym, RowAAPL>>,
     <<HeaderRow, RowAAPL, RowHuge>>}

Init == CacheIdle /\ ReqIdle /\ PoolIdle /\ PriceIdle /\ AvgIdle

\* a request whose page fetch fails: requests.get or raise_for_status raises
GetDataFetchFails(e) ==
    /\ ncalls < MaxRequests
    /\ Serve(scrape_insider_data(cache, e, <<>>, <<>>))
    /\ inFetch' = e
    /\ inPage' = <<>>
    /\ UNCHANGED <<poolVars, priceVars, avgVars>>

\* a request whose page fetch succeeds
GetDataPage(page, outs) ==
    /\ ncalls < MaxRequests
    /\ Serve(scrape_insider_data(cache, "ok", page, outs))
    /\ inFetch' = "ok"
    /\ inPage' = page
    /\ UNCHANGED <<poolVars, priceVars, avgVars>>

\* the symbols scrape_insider_data hands over for a page (none when it raises)
SymbolsIn(parsed) == IF parsed.exc = "none" THEN parsed.symbols_list ELSE <<>>
SymbolsOf(page) == SymbolsIn(RowLoop(page, 2, <<>>, <<>>))

Next ==
    \/ \E e \in RequestExceptions : GetDataFetchFails(e)
    \/ \E page \in SamplePages :
          \E outs \in OutsFor(SymbolsOf(page), LookupSamples) : GetDataPage(page, outs)

Spec == Init /\ [][Next]_vars


----------------------------------------------------------------------------
(* SpecScrape: one request on every page of at most MaxRows rows *)

MaxRows == 4
RowSamples == {HeaderRow, RowAAPL, RowMSFT, RowNoSym, RowShort, RowSix, RowHuge}

InitScrape ==
    /\ inPage \in TextsUpTo(RowSamples, MaxRows)
    /\ inFetch = "ok"
    /\ resp = [status |-> 0, body |-> "none", records |-> <<>>]
    /\ CacheIdle /\ PoolIdle /\ PriceIdle /\ AvgIdle

ScrapePage(outs) ==
    /\ ncalls = 0
    /\ Serve(scrape_insider_data(cache, inFetch, inPage, outs))
    /\ UNCHANGED <<inFetch, inPage, poolVars, priceVars, avgVars>>

NextScrape == \E outs \in OutsFor(SymbolsOf(inPage), {Good, Failing}) : ScrapePage(outs)
SpecScrape == InitScrape /\ [][NextScrape]_vars

----------------------------------------------------------------------------
(* Claims on the endpoint, under Spec and SpecScrape *)

\* a dollar sign and a number with exactly five decimals
IsDollarPrice(t) == Len(t) >= 1 /\ t[1] = "$" /\ IsDecimal(Tail(t), 5)

\* C1 (as stated): a request whose page fetch failed is answered with status 500 and
\* an object with an "error" key, holding no record, and issues no price lookup.
C1_FetchFailureGives500 ==
    inFetch \in {"HTTPError", "ConnectionError", "Timeout"} =>
        /\ resp.status = 500
        /\ resp.body = "error"
        /\ resp.records = <<>>
        /\ lookups = <<>>

\* C6 (as stated): a fresh fetch_stock_prices computation returns a mapping whose keys
\* are exactly the valid symbols of the tuple, each mapped to "N/A" or to a dollar sign
\* and a price with exactly five decimals.
C6_FreshMappingIsPriceOrNA ==
    (resp.body = "array" /\ ~wasHit) =>
        /\ DOMAIN ret = {callKey[i] : i \in {j \in DOMAIN callKey : ~SaidInvalid(callKey[j])}}
        /\ \A s \in DOMAIN ret : ret[s] = NA \/ IsDollarPrice(ret[s])

\* C8: in a response that is an array of records, every record has a real_time_price,
\* which is the mapping's value for the record's symbol when the symbol is valid and
\* "N/A" when it is invalid; no invalid symbol is looked up.
C8_RecordsCarryMappedPrice ==
    resp.body = "array" =>
        /\ \A i \in DOMAIN resp.records :
              /\ "real_time_price" \in DOMAIN resp.records[i]
              /\ IF SaidInvalid(resp.records[i].symbol)
                 THEN resp.records[i].real_time_price = NA
                 ELSE /\ resp.records[i].symbol \in DOMAIN ret
                      /\ resp.records[i].real_time_price = ret[resp.records[i].symbol]
        /\ \A i \in DOMAIN lookups : ~SaidInvalid(lookups[i])

\* an array served from the cache, with a priced record and one of an invalid symbol
C8_Witness ==
    /\ resp.body = "array" /\ wasHit
    /\ \E i \in DOMAIN resp.records :
          resp.records[i].real_time_price # NA /\ ~SaidInvalid(resp.records[i].symbol)
    /\ \E i \in DOMAIN resp.records :
          resp.records[i].real_time_price = NA /\ SaidInvalid(resp.records[i].symbol)

\* the rows of the page behind the first that have at least 7 cells, and the k-th of them
DataRows(page) == {i \in 2..Len(page) : Len(page[i]) >= 7}
NthDataRow(page, k) ==
    page[CHOOSE i \in DataRows(page) : Cardinality({j \in DataRows(page) : j <= i}) = k]

----------------------------------------------------------------------------
(* SpecPool: concurrent requests inside fetch_stock_prices, step by step.   *)
(* Each request thread goes idle -> submit -> collect -> sleep -> store ->  *)
(* done (a cache hit goes idle -> done, a tuple without a valid symbol      *)
(* idle -> store).  The futures of a request are task[r], in submission     *)
(* order, each "queued", "running" (in flight) or "done".                   *)

NumRequests == 2
Reqs == 1..NumRequests

LongKey == <<AAPL, MSFT, AAPL, MSFT, BRKB, AAPL, MSFT, AAPL, MSFT, AAPL, MSFT, AAPL>>

\* the symbol tuple(s) each request may carry: distinct from one request to the other
PoolKeys(r) == IF r = 1 THEN {LongKey} ELSE {<<MSFT>>}

\* the provider's behaviour in this specification depends on the symbol alone
PoolBehaviour(symbol) == IF symbol = AAPL THEN Good ELSE Failing

Running(r) == {i \in DOMAIN task[r] : task[r][i] = "running"}
Queued(r)  == {i \in DOMAIN task[r] : task[r][i] = "queued"}

\* (variant of PoolLoad: one executor shared by all the requests)
PoolLoadShared(r) == Cardinality(UNION {{<<q, i>> : i \in Running(q)} : q \in Reqs})

\* the number of busy workers of the executor that serves request r: the executor is
\* created inside the call, so it serves this call alone
PoolLoad(r) == Cardinality(Running(r))

InitPool ==
    /\ pc = [r \in Reqs |-> "idle"]
    /\ pkey = [r \in Reqs |-> <<>>]
    /\ task = [r \in Reqs |-> <<>>]
    /\ cidx = [r \in Reqs |-> 0]
    /\ results = [r \in Reqs |-> EmptyMap]
    /\ pret = [r \in Reqs |-> EmptyMap]
    /\ cache \in {<<>>, fetch_stock_prices(<<>>, <<MSFT>>, <<Good>>).cache}
    /\ useAt = EmptyMap /\ ncalls = 0 /\ callKey = <<>> /\ ret = EmptyMap
    /\ lookups = <<>> /\ slept = FALSE /\ wasHit = FALSE /\ evicted = {}
    /\ ReqIdle /\ PriceIdle /\ AvgIdle

PoolRest == <<useAt, ncalls, callKey, ret, lookups, slept, wasHit, evicted,
              reqVars, priceVars, avgVars>>

\* the wrapper looks the key up; on a miss the body starts and filters the symbols
Begin(r, key) ==
    /\ pc[r] = "idle"
    /\ pkey' = [pkey EXCEPT ![r] = key]
    /\ IF CacheHit(cache, key)
       THEN /\ pret' = [pret EXCEPT ![r] = CacheGet(cache, key)]
            /\ cache' = CacheTouch(cache, key)
            /\ pc' = [pc EXCEPT ![r] = "done"]
       ELSE /\ pc' = [pc EXCEPT ![r] = IF valid_symbols(key) = <<>> THEN "store" ELSE "submit"]
            /\ UNCHANGED <<pret, cache>>
    /\ UNCHANGED <<task, cidx, results, PoolRest>>

\* executor.submit(fetch_single_price, symbol) for the next valid symbol
Submit(r) ==
    /\ pc[r] = "submit"
    /\ task' = [task EXCEPT ![r] = Append(@, "queued")]
    /\ pc' = [pc EXCEPT ![r] =
                IF Len(task[r]) + 1 = Len(valid_symbols(pkey[r])) THEN "collect" ELSE "submit"]
    /\ UNCHANGED <<pkey, cidx, results, pret, cache, PoolRest>>

\* a free worker of the request's executor takes the oldest queued future
Start(r) ==
    /\ Queued(r) # {}
    /\ PoolLoad(r) < max_workers
    /\ task' = [task EXCEPT ![r] =
                  [@ EXCEPT ![CHOOSE i \in Queued(r) : \A j \in Queued(r) : i <= j] = "running"]]
    /\ UNCHANGED <<pc, pkey, cidx, results, pret, cache, PoolRest>>

\* a lookup returns
Finish(r, i) ==
    /\ i \in Running(r)
    /\ task' = [task EXCEPT ![r] = [@ EXCEPT ![i] = "done"]]
    /\ UNCHANGED <<pc, pkey, cidx, results, pret, cache, PoolRest>>

\* future.result() of the next future, once it is done; behind the last one the with
\* block ends
Collect(r) ==
    /\ pc[r] = "collect"
    /\ cidx[r] < Len(task[r])
    /\ task[r][cidx[r] + 1] = "done"
    /\ results' = [results EXCEPT ![r] =
                     DictSet(@, valid_symbols(pkey[r])[cidx[r] + 1],
                             fetch_single_price(PoolBehaviour(valid_symbols(pkey[r])[cidx[r] + 1])))]
    /\ cidx' = [cidx EXCEPT ![r] = @ + 1]
    /\ pc' = [pc EXCEPT ![r] = IF cidx[r] + 1 = Len(task[r]) THEN "sleep" ELSE "collect"]
    /\ UNCHANGED <<pkey, task, pret, cache, PoolRest>>

\* time.sleep(random.uniform(0.5, 1))
Sleep(r) ==
    /\ pc[r] = "sleep"
    /\ pc' = [pc EXCEPT ![r] = "store"]
    /\ UNCHANGED <<pkey, task, cidx, results, pret, cache, PoolRest>>

\* the body returns results and the wrapper stores them
Store(r) ==
    /\ pc[r] = "store"
    /\ pret' = [pret EXCEPT ![r] = results[r]]
    /\ cache' = CacheInsert(cache, pkey[r], results[r])
    /\ pc' = [pc EXCEPT ![r] = "done"]
    /\ UNCHANGED <<pkey, task, cidx, results, PoolRest>>

NextPool ==
    \E r \in Reqs :
        \/ \E key \in PoolKeys(r) : Begin(r, key)
        \/ Submit(r)
        \/ Start(r)
        \/ \E i \in DOMAIN task[r] : Finish(r, i)
        \/ Collect(r)
        \/ Sleep(r)
        \/ Store(r)

SpecPool == InitPool /\ [][NextPool]_vars


----------------------------------------------------------------------------
(* Claims on the worker pool, under SpecPool *)

InFlight(r) == Cardinality({i \in DOMAIN task[r] : task[r][i] = "running"})
AllLookedUp(r) ==
    /\ Len(task[r]) = Len(SaidValid(pkey[r]))
    /\ \A i \in DOMAIN task[r] : task[r][i] = "done"

RECURSIVE SumInFlight(_)
SumInFlight(n) == IF n = 0 THEN 0 ELSE InFlight(n) + SumInFlight(n - 1)

\* C4: a fresh computation never has more than 10 lookups in flight; it sleeps and
\* returns only when every valid symbol of its tuple has been submitted and looked up;
\* what it returns maps every valid symbol of the tuple; and a key enters the cache only
\* in the step in which a computation on that key, with every lookup done, returns.
C4_BatchBoundedAndComplete ==
    /\ [](\A r \in Reqs :
            /\ InFlight(r) <= 10
            /\ pc[r] \in {"sleep", "store"} => AllLookedUp(r)
            /\ (pc[r] = "done" /\ task[r] # <<>>) =>
                  /\ AllLookedUp(r)
                  /\ DOMAIN pret[r] = {SaidValid(pkey[r])[i] : i \in DOMAIN SaidValid(pkey[r])}
                  /\ \A sym \in DOMAIN pret[r] :
                        pret[r][sym] = fetch_single_price(PoolBehaviour(sym)))
    /\ [][\A i \in DOMAIN cache' :
            (\A j \in DOMAIN cache : cache[j].key # cache'[i].key) =>
                \E r \in Reqs :
                    /\ pc[r] = "store" /\ pc'[r] = "done"
                    /\ pkey[r] = cache'[i].key
                    /\ AllLookedUp(r)
                    /\ cache'[i].val = pret'[r]]_vars

\* ten lookups of one computation in flight and an eleventh submitted and waiting
C4_Witness ==
    \E r \in Reqs : InFlight(r) = 10 /\ \E i \in DOMAIN task[r] : task[r][i] = "queued"

\* C5 (as stated): the lookups in flight of all the requests together never exceed 10.
C5_SharedPoolOfTen == SumInFlight(NumRequests) <= 10

\* C5 (amended): a request with a queued lookup and fewer than 10 of its own in flight
\* can start it whatever the other requests do; each request has at most 10 lookups in
\* flight, and all the requests together at most 10 for each request that has
\* submitted lookups.
C5_PoolPerRequest ==
    /\ \A r \in Reqs :
          /\ InFlight(r) <= 10
          /\ (InFlight(r) < 10 /\ \E i \in DOMAIN task[r] : task[r][i] = "queued")
                => ENABLED Start(r)
    /\ SumInFlight(NumRequests) <= 10 * Cardinality({r \in Reqs : task[r] # <<>>})

\* two requests on distinct tuples with 10 and 1 lookups in flight
C5_Witness ==
    /\ pkey[1] # pkey[2]
    /\ InFlight(1) = 10
    /\ InFlight(2) = 1


----------------------------------------------------------------------------
(* Claims on the two derivations, under SpecPrice and SpecAvg *)

\* the live price cannot be obtained: the field is missing, null or of a wrong type, or
\* reading it raises
LiveUnavailable(b) == b.fast \in {"missing", "None", "text", "KeyError", "Exception"}

\* C7 (as stated): when the live price cannot be obtained and the 1-day series is not
\* empty, the result is the latest close with a dollar prefix; the result is "N/A" only
\* when the live price is unavailable and the series is empty or fails.
C7_FallbackToLatestClose ==
    (priceOut # <<>> /\ beh.ticker = "ok") =>
        /\ (LiveUnavailable(beh) /\ beh.hist = "rows") =>
              priceOut = <<"$">> \o FormatF([kind |-> "fin", num |-> beh.close, den |-> 1000000], 5)
        /\ priceOut = NA =>
              (LiveUnavailable(beh) /\ beh.hist \in {"empty", "KeyError", "Exception"})

\* the share count of the text cannot be parsed or is zero: the longest leading run of
\* digits and commas holds no digit, or only zeros
NoShareCount(text) ==
    \A i \in 1..Len(text) :
        (\A j \in 1..i : IsDigit(text[j]) \/ text[j] = ",") => text[i] \in {",", "0"}

\* C10 (as stated): the derivation never lets an exception out; avg_price is "N/A" or a
\* non-negative number with exactly 2 decimals; it is "N/A" when the share count is zero
\* or cannot be parsed; "100 $1500" with "$1,500.00" gives "15.00".
C10_AvgPriceNeverRaises ==
    avg.exc # "unset" =>
        /\ avg.exc = "none"
        /\ avg.text = NA \/ IsDecimal(avg.text, 2)
        /\ NoShareCount(sp) => avg.text = NA
        /\ (sp = ExampleShare /\ val = ExampleValue) => avg.text = <<"1", "5", ".", "0", "0">>


====
